---- MODULE Spec2Model ----
(***************************************************************************)
(* A model of ppymilter: the milter dispatcher (lib/ppymilterbase.py) and  *)
(* the two socket servers that drive it (lib/ppymilterserver.py).          *)
(*                                                                         *)
(* Python strings are sequences of byte values (0..255); a one-character   *)
(* string is a sequence of length 1.                                       *)
(***************************************************************************)
EXTENDS Integers, Sequences, FiniteSets, TLC

VARIABLES
  transport,        \* "async" | "threaded": the server class that accepted
  milter_class,     \* the handler class handed to the server
  milter,           \* PpyMilterDispatcher.__milter (NoMilter before accept)
  found_terminator, \* async: the callback asynchat calls next
  terminator,       \* async: asynchat's terminator (bytes still to collect)
  pc,               \* threaded: position of handle()
  packetlen,        \* threaded: local variable of handle()
  input,            \* async: "".join(self.__input)
  closed,           \* the connection's socket has been closed by the server
  sent,             \* the writes (push/send) of the latest data callback
  last,             \* the Dispatch call of the latest data callback
  prev,             \* command and handler exception of the Dispatch before
  ack,              \* the first OptNeg packet answered and its answer
  conns,            \* several connections: each one's ConnectionHandler
  heap,             \* several connections: the handler instances created
  event,            \* several connections: the latest Dispatch call
  frames,           \* byte streams: the payloads of the frames the MTA sent
  stream,           \* byte streams: the bytes sent that no recv returned yet
  ac_in_buffer,     \* byte streams, async: asynchat's buffer of received bytes
  ac_out,           \* byte streams, async: bytes pushed and not yet sent
  wire,             \* byte streams: the bytes the socket took from the server
  delivered,        \* byte streams: the packets given to Dispatch, in order
  owed,             \* byte streams: per Dispatch call, the bytes of its writes
  observed          \* both transports: what the async server did with the frames

\* the variables of one connection and its transport
connvars == <<transport, milter_class, milter, found_terminator, terminator,
              input, pc, packetlen, closed, sent, last, prev>>

\* the record of the negotiation
negvars == <<ack>>

\* the connections of a server that has accepted several
multivars == <<conns, heap, event>>

\* the two byte streams of a connection and what passed through them
streamvars == <<frames, stream, ac_in_buffer, ac_out, wire, delivered, owed>>

\* the record of the async server's run, for the threaded server's
pairvars == <<observed>>

vars == <<transport, milter_class, milter, found_terminator, terminator,
          input, pc, packetlen, closed, sent, last, prev, ack,
          conns, heap, event,
          frames, stream, ac_in_buffer, ac_out, wire, delivered, owed,
          observed>>

-----------------------------------------------------------------------------
(* Bounds of the model *)

\* longest generic payload (bytes after the command code) the MTA sends
MaxPayload == 2

-----------------------------------------------------------------------------
(* Byte strings *)

Ord == [A |-> 65, B |-> 66, C |-> 67, D |-> 68, E |-> 69, H |-> 72,
        L |-> 76, M |-> 77, N |-> 78, O |-> 79, Q |-> 81, R |-> 82,
        T |-> 84, U |-> 85, X |-> 88, a |-> 97, four |-> 52, NUL |-> 0]

\* s[i:] of Python, i counted from 0
From(s, i) == IF i >= Len(s) THEN <<>> ELSE SubSeq(s, i + 1, Len(s))

\* s[i:j] of Python
Slice(s, i, j) ==
  LET hi == IF j > Len(s) THEN Len(s) ELSE j
  IN  IF i >= hi THEN <<>> ELSE SubSeq(s, i + 1, hi)

\* position (from 1) of the first sep in s, 0 when there is none
RECURSIVE FindFrom(_, _, _)
FindFrom(s, sep, i) ==
  IF i > Len(s) THEN 0
  ELSE IF s[i] = sep THEN i
  ELSE FindFrom(s, sep, i + 1)

\* s.split(sep): the list of pieces between the separators
RECURSIVE Split(_, _)
Split(s, sep) ==
  LET i == FindFrom(s, sep, 1)
  IN  IF i = 0 THEN <<s>>
      ELSE <<SubSeq(s, 1, i - 1)>> \o Split(From(s, i), sep)

\* s.split(sep, 1): at most one split
Split1(s, sep) ==
  LET i == FindFrom(s, sep, 1)
  IN  IF i = 0 THEN <<s>>
      ELSE <<SubSeq(s, 1, i - 1), From(s, i)>>

\* a & b on Python integers (two's complement of unbounded width)
RECURSIVE BitAnd(_, _)
BitAnd(a, b) ==
  IF a = 0 \/ b = 0 THEN 0
  ELSE IF a = -1 THEN b
  ELSE IF b = -1 THEN a
  ELSE (a % 2) * (b % 2) + 2 * BitAnd(a \div 2, b \div 2)

\* a | b on Python integers
RECURSIVE BitOr(_, _)
BitOr(a, b) ==
  IF a = 0 THEN b
  ELSE IF b = 0 THEN a
  ELSE IF a = -1 \/ b = -1 THEN -1
  ELSE (IF a % 2 = 1 \/ b % 2 = 1 THEN 1 ELSE 0)
       + 2 * BitOr(a \div 2, b \div 2)

\* ~a on Python integers
Invert(a) == -a - 1

\* struct.pack('!I', n): four bytes, most significant first
PackI(n) == << (n \div 16777216) % 256, (n \div 65536) % 256,
               (n \div 256) % 256, n % 256 >>

\* struct.unpack('!I', b)[0] of a four-byte string
UnpackI(b) == ((b[1] * 256 + b[2]) * 256 + b[3]) * 256 + b[4]

\* struct.unpack('!H', b)[0] of a two-byte string
UnpackH(b) == b[1] * 256 + b[2]

-----------------------------------------------------------------------------
(* Python values a callback can return, and what a call can do *)

PyNone     == [type |-> "NoneType"]
PyStr(s)   == [type |-> "str", val |-> s]
PyInt(n)   == [type |-> "int", val |-> n]
PyTuple(t) == [type |-> "tuple", val |-> t]
PyList(t)  == [type |-> "list", val |-> t]

Return(v) == [kind |-> "return", value |-> v]
Raise(e)  == [kind |-> "raise", exc |-> e]

\* str(n) of a non-negative integer: its decimal digits
RECURSIVE Digits(_)
Digits(n) ==
  IF n < 10 THEN <<48 + n>> ELSE Digits(n \div 10) \o <<48 + (n % 10)>>

\* one hexadecimal digit, in lower case
HexDigit(n) == IF n < 10 THEN 48 + n ELSE 87 + n

\* the characters repr() writes for one byte of a str between quotes q
ReprByte(b, q) ==
  IF b = 92 \/ b = q THEN <<92, b>>
  ELSE IF b = 9 THEN <<92, 116>>
  ELSE IF b = 10 THEN <<92, 110>>
  ELSE IF b = 13 THEN <<92, 114>>
  ELSE IF b < 32 \/ b >= 127
  THEN <<92, 120, HexDigit(b \div 16), HexDigit(b % 16)>>
  ELSE <<b>>

RECURSIVE ReprBytes(_, _)
ReprBytes(s, q) ==
  IF s = <<>> THEN <<>> ELSE ReprByte(Head(s), q) \o ReprBytes(Tail(s), q)

\* repr() of a value; a str is quoted with ' unless it holds a ' and no "
RECURSIVE Repr(_)
RECURSIVE ReprItems(_)
ReprItems(items) ==
  IF items = <<>> THEN <<>>
  ELSE IF Len(items) = 1 THEN Repr(items[1])
  ELSE Repr(items[1]) \o <<44, 32>> \o ReprItems(Tail(items))

Repr(v) ==
  IF v.type = "str"
  THEN LET q == IF (\E i \in 1..Len(v.val) : v.val[i] = 39)
                   /\ ~(\E i \in 1..Len(v.val) : v.val[i] = 34)
                THEN 34 ELSE 39
       IN  <<q>> \o ReprBytes(v.val, q) \o <<q>>
  ELSE IF v.type = "int" THEN Digits(v.val)
  ELSE IF v.type = "NoneType" THEN <<78, 111, 110, 101>>
  ELSE IF v.type = "tuple"
  THEN <<40>> \o ReprItems(v.val)
       \o (IF Len(v.val) = 1 THEN <<44>> ELSE <<>>) \o <<41>>
  ELSE <<91>> \o ReprItems(v.val) \o <<93>>

\* what '%s' makes of a value: a string as it is, any other value by its
\* str(), which is its repr()
PercentS(v) == IF v.type = "str" THEN v.val ELSE Repr(v)

\* the list of strings as a Python list of str
StrList(pieces) == PyList([i \in 1..Len(pieces) |-> PyStr(pieces[i])])

\* f(*args): a tuple passes its items, a string its characters
Star(args) ==
  IF args.type = "str"
  THEN [i \in 1..Len(args.val) |-> PyStr(<<args.val[i]>>)]
  ELSE args.val

-----------------------------------------------------------------------------
(* lib/ppymilterbase.py: the tables *)

MILTER_VERSION == 2

\* the command table with 'A' mapped to Quit
COMMANDS_AbortAsQuit ==
  (65 :> "Quit") @@ (66 :> "Body") @@ (67 :> "Connect") @@
  (68 :> "Macro") @@ (69 :> "EndBody") @@ (72 :> "Helo") @@
  (76 :> "Header") @@ (77 :> "MailFrom") @@ (78 :> "EndHeaders") @@
  (79 :> "OptNeg") @@ (82 :> "RcptTo") @@ (81 :> "Quit") @@
  (84 :> "Data") @@ (85 :> "Unknown")

\* COMMANDS with a fifteenth code, 'X', routed as Quit
COMMANDS_WithX ==
  (Ord.A :> "Abort")   @@ (Ord.B :> "Body")     @@ (Ord.C :> "Connect") @@
  (Ord.D :> "Macro")   @@ (Ord.E :> "EndBody")  @@ (Ord.H :> "Helo")    @@
  (Ord.L :> "Header")  @@ (Ord.M :> "MailFrom") @@ (Ord.N :> "EndHeaders") @@
  (Ord.O :> "OptNeg")  @@ (Ord.R :> "RcptTo")   @@ (Ord.Q :> "Quit")    @@
  (Ord.T :> "Data")    @@ (Ord.U :> "Unknown")  @@ (Ord.X :> "Quit")

COMMANDS ==
  (Ord.A :> "Abort")   @@ (Ord.B :> "Body")     @@ (Ord.C :> "Connect") @@
  (Ord.D :> "Macro")   @@ (Ord.E :> "EndBody")  @@ (Ord.H :> "Helo")    @@
  (Ord.L :> "Header")  @@ (Ord.M :> "MailFrom") @@ (Ord.N :> "EndHeaders") @@
  (Ord.O :> "OptNeg")  @@ (Ord.R :> "RcptTo")   @@ (Ord.Q :> "Quit")    @@
  (Ord.T :> "Data")    @@ (Ord.U :> "Unknown")

NO_CALLBACKS == 127

CALLBACKS ==
  [OnConnect |-> 1, OnHelo |-> 2, OnMailFrom |-> 4, OnRcptTo |-> 8,
   OnBody |-> 16, OnHeader |-> 32, OnEndHeaders |-> 64]

RESPONSE ==
  [ADDRCPT |-> <<43>>, DELRCPT |-> <<45>>, ACCEPT |-> <<97>>,
   REPLBODY |-> <<98>>, CONTINUE |-> <<99>>, DISCARD |-> <<100>>,
   CONNFAIL |-> <<102>>, ADDHEADER |-> <<104>>, INSHEADER |-> <<105>>,
   CHGHEADER |-> <<109>>, PROGRESS |-> <<112>>, QUARANTINE |-> <<113>>,
   REJECT |-> <<114>>, SETSENDER |-> <<115>>, TEMPFAIL |-> <<116>>,
   REPLYCODE |-> <<121>>]

\* the ACTION_* class attributes of PpyMilter, by the Can*() that sets them
ActionFlags ==
  [CanAddHeaders |-> 1, CanChangeBody |-> 2, CanAddRecipient |-> 4,
   CanDeleteRecipient |-> 8, CanChangeHeaders |-> 16, CanQuarentine |-> 32]

\* the names 'On%s' % command of every command of COMMANDS
CallbackNames == {"On" \o COMMANDS[c] : c \in DOMAIN COMMANDS}

-----------------------------------------------------------------------------
(* lib/ppymilterbase.py: class PpyMilter *)

\* the callbacks class PpyMilter itself defines
PpyMilterMethods == {"OnOptNeg", "OnMacro", "OnQuit"}

\* A handler class: ppy says it derives from PpyMilter, user is the set of
\* callbacks the class defines itself, can the Can*() its __init__ calls.
\* hasattr(instance, name) for the callbacks of such a class:
Methods(cls) == cls.user \cup (IF cls.ppy THEN PpyMilterMethods ELSE {})

\* the loop of PpyMilter.__init__ with protocol &= flag for &= ~flag
RECURSIVE ClearFlags_NoInvert(_, _, _)
ClearFlags_NoInvert(protocol, todo, cls) ==
  IF todo = {} THEN protocol
  ELSE LET callback == CHOOSE c \in todo : TRUE
           flag == CALLBACKS[callback]
       IN  ClearFlags_NoInvert(IF callback \in Methods(cls)
                               THEN BitAnd(protocol, flag)
                               ELSE protocol,
                               todo \ {callback}, cls)

\* the loop of PpyMilter.__init__ over the callbacks still to visit
RECURSIVE ClearFlags(_, _, _)
ClearFlags(protocol, todo, cls) ==
  IF todo = {} THEN protocol
  ELSE LET callback == CHOOSE c \in todo : TRUE
           flag == CALLBACKS[callback]
       IN  ClearFlags(IF callback \in Methods(cls)
                      THEN BitAnd(protocol, Invert(flag))
                      ELSE protocol,
                      todo \ {callback}, cls)

\* the Can*() calls of a subclass's __init__, each actions |= ACTION_*
RECURSIVE Register(_, _)
Register(actions, todo) ==
  IF todo = {} THEN actions
  ELSE LET can == CHOOSE c \in todo : TRUE
       IN  Register(BitOr(actions, ActionFlags[can]), todo \ {can})

\* milter_class(): PpyMilter.__init__ followed by the subclass's Can*()
\* calls; a class that does not derive from PpyMilter has neither field
PpyMilterInit(cls) ==
  IF cls.ppy
  THEN [cls |-> cls,
        actions |-> Register(0, cls.can),
        protocol |-> ClearFlags(NO_CALLBACKS, DOMAIN CALLBACKS, cls)]
  ELSE [cls |-> cls]

\* the response constructors
Accept   == PyTuple(<<PyStr(RESPONSE.ACCEPT), PyStr(<<>>)>>)
Continue == PyTuple(<<PyStr(RESPONSE.CONTINUE), PyStr(<<>>)>>)
CustomReply(code, text) ==
  PyTuple(<<PyStr(RESPONSE.REPLYCODE),
            PyStr(PercentS(code) \o <<32>> \o PercentS(text) \o <<0>>)>>)

\* OnOptNeg answering its own masks, not masked by the peer's
OnOptNeg_Unmasked(self, cmd, ver, actions, protocol) ==
  LET out == PackI(MILTER_VERSION)
             \o PackI(self.actions)
             \o PackI(self.protocol)
  IN  Return(PyTuple(<<cmd, PyStr(out)>>))

\* OnOptNeg giving up its actions once it has answered an OptNeg
OnOptNeg_Once(self, cmd, ver, actions, protocol) ==
  LET out == PackI(MILTER_VERSION)
             \o PackI(IF ack.seen THEN 0
                      ELSE BitAnd(self.actions, actions.val))
             \o PackI(BitAnd(self.protocol, protocol.val))
  IN  Return(PyTuple(<<cmd, PyStr(out)>>))

OnOptNeg(self, cmd, ver, actions, protocol) ==
  LET out == PackI(MILTER_VERSION)
             \o PackI(BitAnd(self.actions, actions.val))
             \o PackI(BitAnd(self.protocol, protocol.val))
  IN  Return(PyTuple(<<cmd, PyStr(out)>>))

\* OnMacro answering Continue
OnMacro_Continue(self, cmd, macro_cmd, data) == Return(Continue)

OnMacro(self, cmd, macro_cmd, data) == Return(PyNone)

\* OnQuit without its raise
OnQuit_ReturnsNone(self, cmd) == Return(PyNone)

OnQuit(self, cmd) == Raise("PpyMilterCloseConnection")

-----------------------------------------------------------------------------
(* lib/ppymilterbase.py: class PpyMilterDispatcher *)

_ParseOptNeg(cmd, data) ==
  IF Len(data) # 12 THEN Raise("struct.error")
  ELSE Return(PyTuple(<<cmd, PyInt(UnpackI(SubSeq(data, 1, 4))),
                             PyInt(UnpackI(SubSeq(data, 5, 8))),
                             PyInt(UnpackI(SubSeq(data, 9, 12)))>>))

_ParseMacro(cmd, data) ==
  IF Len(data) = 0 THEN Raise("IndexError")
  ELSE Return(PyTuple(<<cmd, PyStr(<<data[1]>>),
                        StrList(Split(From(data, 1), Ord.NUL))>>))

_ParseConnect(cmd, data) ==
  LET pieces == Split1(data, Ord.NUL)
  IN  IF Len(pieces) # 2 THEN Raise("ValueError")
      ELSE LET hostname == pieces[1]
               rest == pieces[2]
           IN  IF Len(rest) = 0 THEN Raise("IndexError")
               ELSE IF Len(Slice(rest, 1, 3)) # 2 THEN Raise("struct.error")
               ELSE Return(PyTuple(<<cmd, PyStr(hostname), PyStr(<<rest[1]>>),
                                     PyInt(UnpackH(Slice(rest, 1, 3))),
                                     PyStr(From(rest, 3))>>))

_ParseHelo(cmd, data) == Return(PyTuple(<<cmd, PyStr(data)>>))

_ParseMailFrom(cmd, data) ==
  LET pieces == Split1(data, Ord.NUL)
  IN  IF Len(pieces) # 2 THEN Raise("ValueError")
      ELSE Return(PyTuple(<<cmd, PyStr(pieces[1]),
                            StrList(Split(pieces[2], Ord.NUL))>>))

_ParseRcptTo(cmd, data) ==
  LET pieces == Split1(data, Ord.NUL)
  IN  IF Len(pieces) # 2 THEN Raise("ValueError")
      ELSE Return(PyTuple(<<cmd, PyStr(pieces[1]),
                            StrList(Split(pieces[2], Ord.NUL))>>))

_ParseHeader(cmd, data) ==
  LET pieces == Split1(data, Ord.NUL)
  IN  IF Len(pieces) # 2 THEN Raise("ValueError")
      ELSE Return(PyTuple(<<cmd, PyStr(pieces[1]), PyStr(pieces[2])>>))

\* (cmd) is the string cmd itself, not a tuple
_ParseEndHeaders(cmd, data) == Return(cmd)

_ParseBody(cmd, data) == Return(PyTuple(<<cmd, PyStr(data)>>))

_ParseEndBody(cmd, data) == Return(PyTuple(<<cmd, PyStr(data)>>))

_ParseQuit(cmd, data) == Return(cmd)

\* a dispatcher that has only the OptNeg and Connect decoders until a first
\* command has been dispatched on the connection
Parsers_ConnectFirst ==
  IF prev.cmd = -1 /\ prev.raised = ""
  THEN {"_ParseOptNeg", "_ParseConnect"}
  ELSE {"_ParseOptNeg", "_ParseMacro", "_ParseConnect", "_ParseHelo",
        "_ParseMailFrom", "_ParseRcptTo", "_ParseHeader", "_ParseEndHeaders",
        "_ParseBody", "_ParseEndBody", "_ParseQuit"}

\* the _Parse* methods the dispatcher has: hasattr(self, name)
Parsers ==
  {"_ParseOptNeg", "_ParseMacro", "_ParseConnect", "_ParseHelo",
   "_ParseMailFrom", "_ParseRcptTo", "_ParseHeader", "_ParseEndHeaders",
   "_ParseBody", "_ParseEndBody", "_ParseQuit"}

\* getattr(self, parser_callback_name)(cmd, data)
Parse(name, cmd, data) ==
  CASE name = "_ParseOptNeg"     -> _ParseOptNeg(cmd, data)
    [] name = "_ParseMacro"      -> _ParseMacro(cmd, data)
    [] name = "_ParseConnect"    -> _ParseConnect(cmd, data)
    [] name = "_ParseHelo"       -> _ParseHelo(cmd, data)
    [] name = "_ParseMailFrom"   -> _ParseMailFrom(cmd, data)
    [] name = "_ParseRcptTo"     -> _ParseRcptTo(cmd, data)
    [] name = "_ParseHeader"     -> _ParseHeader(cmd, data)
    [] name = "_ParseEndHeaders" -> _ParseEndHeaders(cmd, data)
    [] name = "_ParseBody"       -> _ParseBody(cmd, data)
    [] name = "_ParseEndBody"    -> _ParseEndBody(cmd, data)
    [] name = "_ParseQuit"       -> _ParseQuit(cmd, data)

\* getattr(self.__milter, handler_callback_name)(*args): a callback the
\* class defines itself does what its author wrote (behaviour), the others
\* are PpyMilter's
Call(self, name, args, behaviour) ==
  IF name \in self.cls.user THEN behaviour
  ELSE CASE name = "OnOptNeg" -> OnOptNeg(self, args[1], args[2], args[3], args[4])
         [] name = "OnMacro"  -> OnMacro(self, args[1], args[2], args[3])
         [] name = "OnQuit"   -> OnQuit(self, args[1])

\* the inner try with "except (TypeError, ValueError)"
Respond_CatchAll(response_tuple) ==
  IF response_tuple.type \in {"tuple", "list", "str"}
  THEN LET items == Star(response_tuple)
       IN  IF Len(items) = 2
           THEN Return(PyStr(PercentS(items[1]) \o PercentS(items[2])))
           ELSE Return(PyNone)
  ELSE Return(PyNone)

\* (code, response) = response_tuple; return '%s%s' % (code, response)
\* TypeError (the value is not iterable) is caught and answered by None;
\* ValueError (the wrong number of items) is not caught
Respond(response_tuple) ==
  IF response_tuple.type \in {"tuple", "list", "str"}
  THEN LET items == Star(response_tuple)
       IN  IF Len(items) = 2
           THEN Return(PyStr(PercentS(items[1]) \o PercentS(items[2])))
           ELSE Raise("ValueError")
  ELSE Return(PyNone)

\* the except clauses with the two responses exchanged
HandleExceptions_Swapped(result) ==
  IF result.kind = "raise" /\ result.exc = "PpyMilterTempFailure"
  THEN Return(PyStr(RESPONSE.REJECT))
  ELSE IF result.kind = "raise" /\ result.exc = "PpyMilterPermFailure"
  THEN Return(PyStr(RESPONSE.TEMPFAIL))
  ELSE result

\* the except clauses with a third, "except PpyMilterException", that
\* answers Continue
HandleExceptions_CatchAll(result) ==
  IF result.kind = "raise" /\ result.exc = "PpyMilterTempFailure"
  THEN Return(PyStr(RESPONSE.TEMPFAIL))
  ELSE IF result.kind = "raise" /\ result.exc = "PpyMilterPermFailure"
  THEN Return(PyStr(RESPONSE.REJECT))
  ELSE IF result.kind = "raise" /\ result.exc = "PpyMilterCloseConnection"
  THEN Return(PyStr(RESPONSE.CONTINUE))
  ELSE result

\* the except clauses of Dispatch: what becomes of the result of the try
\* block; an exception they do not name leaves Dispatch
HandleExceptions(result) ==
  IF result.kind = "raise" /\ result.exc = "PpyMilterTempFailure"
  THEN Return(PyStr(RESPONSE.TEMPFAIL))
  ELSE IF result.kind = "raise" /\ result.exc = "PpyMilterPermFailure"
  THEN Return(PyStr(RESPONSE.REJECT))
  ELSE result

\* What one call of Dispatch does: result is what it returns or raises,
\* parsed and called are the parser and the handler callback it invoked (in
\* order), args what the parser returned, raised the exception the handler
\* callback raised ("" when it raised none or was not called).
Outcome(result, parsed, called, args, raised) ==
  [result |-> result, parsed |-> parsed, called |-> called, args |-> args,
   raised |-> raised]

\* Dispatch parsing the data before it looks for the handler's method
Dispatch_ParseFirst(self, packet, behaviour) ==
  IF Len(packet) = 0
  THEN Outcome(Raise("IndexError"), <<>>, <<>>, PyNone, "")
  ELSE
  LET cmd == packet[1]
      data == From(packet, 1)
  IN
  IF cmd \notin DOMAIN COMMANDS
  THEN Outcome(Return(PyStr(RESPONSE.CONTINUE)), <<>>, <<>>, PyNone, "")
  ELSE
  LET command == COMMANDS[cmd]
      parser_callback_name == "_Parse" \o command
      handler_callback_name == "On" \o command
  IN
  IF parser_callback_name \notin Parsers
  THEN Outcome(Return(PyStr(RESPONSE.CONTINUE)), <<>>, <<>>, PyNone, "")
  ELSE
  LET args == Parse(parser_callback_name, PyStr(<<cmd>>), data)
  IN
  IF args.kind = "raise"
  THEN Outcome(HandleExceptions(args), <<parser_callback_name>>, <<>>,
               PyNone, "")
  ELSE IF handler_callback_name \notin Methods(self.cls)
  THEN Outcome(Return(PyStr(RESPONSE.CONTINUE)), <<parser_callback_name>>,
               <<>>, PyNone, "")
  ELSE
  LET response_tuple == Call(self, handler_callback_name,
                             Star(args.value), behaviour)
  IN  IF response_tuple.kind = "raise"
      THEN Outcome(HandleExceptions(response_tuple),
                   <<parser_callback_name>>, <<handler_callback_name>>,
                   args.value, response_tuple.exc)
      ELSE Outcome(HandleExceptions(Respond(response_tuple.value)),
                   <<parser_callback_name>>, <<handler_callback_name>>,
                   args.value, "")

Dispatch(self, packet, behaviour) ==
  IF Len(packet) = 0
  THEN Outcome(Raise("IndexError"), <<>>, <<>>, PyNone, "")
  ELSE
  LET cmd == packet[1]
      data == From(packet, 1)
  IN
  IF cmd \notin DOMAIN COMMANDS
  THEN Outcome(Return(PyStr(RESPONSE.CONTINUE)), <<>>, <<>>, PyNone, "")
  ELSE
  LET command == COMMANDS[cmd]
      parser_callback_name == "_Parse" \o command
      handler_callback_name == "On" \o command
  IN
  IF parser_callback_name \notin Parsers
  THEN Outcome(Return(PyStr(RESPONSE.CONTINUE)), <<>>, <<>>, PyNone, "")
  ELSE IF handler_callback_name \notin Methods(self.cls)
  THEN Outcome(Return(PyStr(RESPONSE.CONTINUE)), <<>>, <<>>, PyNone, "")
  ELSE
  LET args == Parse(parser_callback_name, PyStr(<<cmd>>), data)
  IN
  IF args.kind = "raise"
  THEN Outcome(HandleExceptions(args), <<parser_callback_name>>, <<>>,
               PyNone, "")
  ELSE
  LET response_tuple == Call(self, handler_callback_name,
                             Star(args.value), behaviour)
  IN  IF response_tuple.kind = "raise"
      THEN Outcome(HandleExceptions(response_tuple),
                   <<parser_callback_name>>, <<handler_callback_name>>,
                   args.value, response_tuple.exc)
      ELSE Outcome(HandleExceptions(Respond(response_tuple.value)),
                   <<parser_callback_name>>, <<handler_callback_name>>,
                   args.value, "")

-----------------------------------------------------------------------------
(* What the environment supplies: handler classes, what their callbacks   *)
(* do, and the frames the MTA sends                                        *)

UserSets ==
  { {}, {"OnMailFrom"}, CallbackNames \ PpyMilterMethods, CallbackNames }

CanSets == { {}, {"CanAddHeaders", "CanAddRecipient"} }

\* the handler classes a server is started with
MilterClasses ==
  {[ppy |-> TRUE, user |-> u, can |-> c] : u \in UserSets, c \in CanSets}
  \cup {[ppy |-> FALSE, user |-> u, can |-> {}] : u \in UserSets}

\* every subclass of PpyMilter, by the callbacks it defines
AllMilterClasses ==
  {[ppy |-> TRUE, user |-> u, can |-> c] :
     u \in SUBSET CallbackNames, c \in CanSets}

\* what a callback written by the user does when it is called
Behaviours ==
  { Return(Continue), Return(CustomReply(PyInt(550), PyStr(<<Ord.a>>))),
    Return(PyTuple(<<PyStr(<<>>), PyStr(<<>>)>>)),
    Return(PyNone), Return(PyInt(42)),
    Return(PyTuple(<<PyStr(RESPONSE.CONTINUE)>>)),
    Return(PyList(<<>>)), Return(PyList(<<Continue>>)),
    Return(PyList(<<PyTuple(<<PyStr(RESPONSE.ADDRCPT), PyStr(<<Ord.a, 0>>)>>),
                    Continue>>)),
    Raise("PpyMilterTempFailure"), Raise("PpyMilterPermFailure"),
    Raise("PpyMilterCloseConnection"), Raise("KeyError") }

\* no callback of the user's is called
NoBehaviour == Return(PyNone)

RECURSIVE SeqsUpTo(_, _)
SeqsUpTo(alphabet, n) ==
  IF n = 0 THEN {<<>>}
  ELSE LET shorter == SeqsUpTo(alphabet, n - 1)
       IN  shorter \cup {s \o <<b>> : s \in shorter, b \in alphabet}

Payloads == SeqsUpTo({Ord.NUL, Ord.a}, MaxPayload)

\* command codes the MTA sends: the fourteen of COMMANDS and two others
Codes == DOMAIN COMMANDS \cup {Ord.X, Ord.NUL}

\* what the MTA offers in an OptNeg: version, actions, protocol
PeerVersions == {1, 2, 6}
PeerActions == {5, 63, 16777217}
PeerProtocols == {123, 127, 383}

OptNegPacket(ver, actions, protocol) ==
  <<Ord.O>> \o PackI(ver) \o PackI(actions) \o PackI(protocol)

ConnectPackets ==
  {<<Ord.C>> \o h \o <<Ord.NUL, Ord.four, 0, 25>> \o a :
     h \in {<<>>, <<Ord.a>>}, a \in {<<>>, <<Ord.a>>}}

Packets ==
  {<<>>}
  \cup {<<c>> \o p : c \in Codes, p \in Payloads}
  \cup ConnectPackets
  \cup {OptNegPacket(v, a, p) :
          v \in PeerVersions, a \in PeerActions, p \in PeerProtocols}

\* the lengths the MTA announces in front of its packets
PacketLens == {Len(p) : p \in Packets}

-----------------------------------------------------------------------------
(* lib/ppymilterserver.py *)

MILTER_LEN_BYTES == 4

\* no handler instance yet: the connection has not been accepted
NoMilter == [none |-> TRUE]

NoDispatch ==
  [dispatched |-> FALSE, packet |-> <<>>, behaviour |-> NoBehaviour,
   outcome |-> Outcome(Return(PyNone), <<>>, <<>>, PyNone, "")]

NoPrev == [cmd |-> -1, raised |-> ""]

\* the command and the handler's exception of a Dispatch call, for prev
Summary(l) ==
  [cmd |-> IF Len(l.packet) = 0 THEN -1 ELSE l.packet[1],
   raised |-> l.outcome.raised]

\* the behaviours to consider for a packet: those of the user's callback
\* Dispatch calls for it, if it calls one
BehavioursFor(self, packet) ==
  LET called == Dispatch(self, packet, NoBehaviour).called
  IN  IF called # <<>> /\ called[1] \in self.cls.user
      THEN Behaviours ELSE {NoBehaviour}

\* __send_response(response): the length, then the response
send_response(response) == <<PackI(Len(response)), response>>

RECURSIVE SendAll(_)
SendAll(responses) ==
  IF responses = <<>> THEN <<>>
  ELSE send_response(Head(responses).val) \o SendAll(Tail(responses))

\* the transports with "elif response is not None" for "elif response"
Writes_EmptyToo(response) ==
  IF response.type = "list" THEN SendAll(response.val)
  ELSE IF response.type = "str"
  THEN send_response(response.val)
  ELSE <<>>

\* the writes read_milter_data and handle make for what Dispatch returned
Writes(response) ==
  IF response.type = "list" THEN SendAll(response.val)
  ELSE IF response.type = "str" /\ response.val # <<>>
  THEN send_response(response.val)
  ELSE <<>>

\* no OptNeg has been answered on the connection
NoAck == [seen |-> FALSE, packet |-> <<>>, reply |-> <<Return(PyNone), <<>>>>]

\* the connections a server may have open at a time
NumConns == 2

\* the commands followed on each of several connections
MaxCmds == 2

Conns == 1..NumConns

NoEvent == [dispatched |-> FALSE, conn |-> 0, milter |-> 0, socket |-> 0,
            packet |-> <<>>, sent |-> <<>>]

\* no connection accepted, no handler instance created
MultiInit ==
  /\ conns = [c \in Conns |->
                [accepted |-> FALSE, closed |-> FALSE, milter |-> 0,
                 commands |-> 0]]
  /\ heap = <<>>
  /\ event = NoEvent

\* no run of the async server on record
NoRun == [done |-> FALSE, policy |-> NoBehaviour, delivered |-> <<>>,
          owed |-> <<>>, wire |-> <<>>, closed |-> FALSE]

\* nothing sent, nothing received, nothing written
StreamInit ==
  /\ observed = NoRun
  /\ frames = <<>>
  /\ stream = <<>>
  /\ ac_in_buffer = <<>>
  /\ ac_out = <<>>
  /\ wire = <<>>
  /\ delivered = <<>>
  /\ owed = <<>>

\* a connection the server has not accepted yet
ConnInit ==
  /\ milter = NoMilter
  /\ found_terminator = ""
  /\ terminator = 0
  /\ input = <<>>
  /\ pc = "setup"
  /\ packetlen = 0
  /\ closed = FALSE
  /\ sent = <<>>
  /\ last = NoDispatch
  /\ prev = NoPrev

Init ==
  /\ transport \in {"async", "threaded"}
  /\ milter_class \in MilterClasses
  /\ ConnInit
  /\ ack = NoAck
  /\ MultiInit
  /\ StreamInit

\* AsyncPpyMilterServer.handle_accept: a ConnectionHandler for the
\* connection, with its own dispatcher and handler instance
handle_accept ==
  /\ transport = "async"
  /\ milter = NoMilter
  /\ milter' = PpyMilterInit(milter_class)
  /\ input' = <<>>
  /\ terminator' = MILTER_LEN_BYTES
  /\ found_terminator' = "read_packetlen"
  /\ UNCHANGED <<transport, milter_class, pc, packetlen, closed, sent,
                 last, prev>>
  /\ UNCHANGED <<negvars, multivars, streamvars, pairvars>>

\* read_packetlen with the collected bytes of the length in self.__input
ReadPacketlen(collected) ==
  /\ terminator' = UnpackI(collected)
  /\ input' = <<>>
  /\ found_terminator' = "read_milter_data"
  /\ prev' = IF last.dispatched THEN Summary(last) ELSE prev
  /\ last' = NoDispatch
  /\ sent' = <<>>
  /\ UNCHANGED <<transport, milter_class, milter, pc, packetlen, closed>>

\* the async transport waits for the bytes of a length
AwaitsPacketlen ==
  /\ transport = "async"
  /\ milter # NoMilter
  /\ ~closed
  /\ found_terminator = "read_packetlen"
  /\ terminator > 0

\* asynchat has collected the four bytes of a length: read_packetlen
read_packetlen ==
  /\ AwaitsPacketlen
  /\ \E n \in PacketLens :
       /\ Len(input \o PackI(n)) = terminator
       /\ ReadPacketlen(input \o PackI(n))
  /\ UNCHANGED <<negvars, multivars, streamvars, pairvars>>

\* read_milter_data as it would be if the terminator still stood at the
\* packet's length when the callback closes the connection
ReadMilterData_KeepTerminator(inbuff, b) ==
  LET outcome == Dispatch(milter, inbuff, b)
  IN  /\ last' = [dispatched |-> TRUE, packet |-> inbuff,
                  behaviour |-> b, outcome |-> outcome]
      /\ IF outcome.result.kind = "return"
         THEN /\ sent' = Writes(outcome.result.value)
              /\ found_terminator' = "read_packetlen"
              /\ terminator' = MILTER_LEN_BYTES
              /\ closed' = closed
         ELSE /\ sent' = <<>>
              /\ found_terminator' = found_terminator
              /\ terminator' = Len(inbuff)
              /\ closed' = TRUE
      /\ input' = <<>>
      /\ UNCHANGED <<transport, milter_class, milter, pc, packetlen, prev>>

\* read_milter_data with the collected bytes of the packet in self.__input,
\* the handler's callback behaving as b.  An exception other than
\* PpyMilterCloseConnection leaves the callback; asyncore's handle_error
\* then closes the channel.  asynchat sets the terminator to 0 before it
\* calls found_terminator.
ReadMilterData(inbuff, b) ==
  LET outcome == Dispatch(milter, inbuff, b)
  IN  /\ last' = [dispatched |-> TRUE, packet |-> inbuff,
                  behaviour |-> b, outcome |-> outcome]
      /\ IF outcome.result.kind = "return"
         THEN /\ sent' = Writes(outcome.result.value)
              /\ found_terminator' = "read_packetlen"
              /\ terminator' = MILTER_LEN_BYTES
              /\ closed' = closed
         ELSE /\ sent' = <<>>
              /\ found_terminator' = found_terminator
              /\ terminator' = 0
              /\ closed' = TRUE
      /\ input' = <<>>
      /\ UNCHANGED <<transport, milter_class, milter, pc, packetlen, prev>>

\* the async transport waits for the bytes of a packet
AwaitsMilterData ==
  /\ transport = "async"
  /\ milter # NoMilter
  /\ ~closed
  /\ found_terminator = "read_milter_data"
  /\ terminator > 0

\* asynchat has collected the bytes of a packet: read_milter_data
read_milter_data ==
  /\ AwaitsMilterData
  /\ \E p \in Packets : \E b \in BehavioursFor(milter, input \o p) :
       /\ Len(input \o p) = terminator
       /\ ReadMilterData(input \o p, b)
  /\ UNCHANGED <<negvars, multivars, streamvars, pairvars>>

\* ThreadedPpyMilterServer.ConnectionHandler.setup
setup ==
  /\ transport = "threaded"
  /\ milter = NoMilter
  /\ milter' = PpyMilterInit(milter_class)
  /\ pc' = "recv_packetlen"
  /\ UNCHANGED <<transport, milter_class, found_terminator, terminator,
                 input, packetlen, closed, sent, last, prev>>
  /\ UNCHANGED <<negvars, multivars, streamvars, pairvars>>

\* handle: the length unpacked from the four bytes recv returned
HandleRecvPacketlen(bytes) ==
  /\ packetlen' = UnpackI(bytes)
  /\ pc' = "recv_data"
  /\ prev' = IF last.dispatched THEN Summary(last) ELSE prev
  /\ last' = NoDispatch
  /\ sent' = <<>>
  /\ UNCHANGED <<transport, milter_class, milter, found_terminator,
                 terminator, input, closed>>

\* handle: the recv of the length at the top of the loop
handle_recv_packetlen ==
  /\ transport = "threaded"
  /\ ~closed
  /\ pc = "recv_packetlen"
  /\ \E n \in PacketLens : HandleRecvPacketlen(PackI(n))
  /\ UNCHANGED <<negvars, multivars, streamvars, pairvars>>

\* handle: the rest of the loop body with the data recv returned, the
\* handler's callback behaving as b.  When handle returns (break, or an
\* exception caught by its except clause) the socket server closes the
\* request.
HandleRecvData(data, b) ==
  LET outcome == Dispatch(milter, data, b)
  IN  /\ last' = [dispatched |-> TRUE, packet |-> data,
                  behaviour |-> b, outcome |-> outcome]
      /\ IF outcome.result.kind = "return"
         THEN /\ sent' = Writes(outcome.result.value)
              /\ pc' = "recv_packetlen"
              /\ closed' = FALSE
         ELSE /\ sent' = <<>>
              /\ pc' = "done"
              /\ closed' = TRUE
      /\ UNCHANGED <<transport, milter_class, milter, found_terminator,
                     terminator, input, packetlen, prev>>

\* handle: the recv of the packet and the rest of the loop body
handle_recv_data ==
  /\ transport = "threaded"
  /\ ~closed
  /\ pc = "recv_data"
  /\ \E data \in Packets : \E b \in BehavioursFor(milter, data) :
       /\ Len(data) = packetlen
       /\ HandleRecvData(data, b)
  /\ UNCHANGED <<negvars, multivars, streamvars, pairvars>>

Next ==
  \/ handle_accept
  \/ read_packetlen
  \/ read_milter_data
  \/ setup
  \/ handle_recv_packetlen
  \/ handle_recv_data

Spec == Init /\ [][Next]_vars

-----------------------------------------------------------------------------
(* The construction of handlers alone, over every subclass of PpyMilter *)

InitConstruct ==
  /\ transport \in {"async", "threaded"}
  /\ milter_class \in AllMilterClasses
  /\ ConnInit
  /\ ack = NoAck
  /\ MultiInit
  /\ StreamInit

NextConstruct ==
  \/ handle_accept
  \/ setup

SpecConstruct == InitConstruct /\ [][NextConstruct]_vars

-----------------------------------------------------------------------------
(* The negotiation: OptNeg at any point of a connection, with the first   *)
(* OptNeg answered and its answer on record                                *)

\* the packets the MTA sends in this specification
NegPackets ==
  { OptNegPacket(2, 63, 127), OptNegPacket(6, 5, 383),
    OptNegPacket(1, 16777217, 123),
    <<Ord.M, Ord.a, 0>>, <<Ord.A>>, <<Ord.X>> }

NegPacketLens == {Len(p) : p \in NegPackets}

\* the record of the first OptNeg dispatched on the connection, taken when
\* its data callback returns
Negotiated ==
  ack' = IF ~ack.seen /\ last'.packet # <<>> /\ last'.packet[1] = Ord.O
         THEN [seen |-> TRUE, packet |-> last'.packet,
               reply |-> <<last'.outcome.result, sent'>>]
         ELSE ack

InitNeg ==
  /\ transport \in {"async", "threaded"}
  /\ milter_class \in MilterClasses
  /\ ConnInit
  /\ ack = NoAck
  /\ MultiInit
  /\ StreamInit

read_packetlen_neg ==
  /\ AwaitsPacketlen
  /\ \E n \in NegPacketLens :
       /\ Len(input \o PackI(n)) = terminator
       /\ ReadPacketlen(input \o PackI(n))
  /\ UNCHANGED <<negvars, multivars, streamvars, pairvars>>

read_milter_data_neg ==
  /\ AwaitsMilterData
  /\ \E p \in NegPackets : \E b \in BehavioursFor(milter, input \o p) :
       /\ Len(input \o p) = terminator
       /\ ReadMilterData(input \o p, b)
  /\ Negotiated
  /\ UNCHANGED <<multivars, streamvars, pairvars>>

handle_recv_packetlen_neg ==
  /\ transport = "threaded"
  /\ ~closed
  /\ pc = "recv_packetlen"
  /\ \E n \in NegPacketLens : HandleRecvPacketlen(PackI(n))
  /\ UNCHANGED <<negvars, multivars, streamvars, pairvars>>

handle_recv_data_neg ==
  /\ transport = "threaded"
  /\ ~closed
  /\ pc = "recv_data"
  /\ \E data \in NegPackets : \E b \in BehavioursFor(milter, data) :
       /\ Len(data) = packetlen
       /\ HandleRecvData(data, b)
  /\ Negotiated
  /\ UNCHANGED <<multivars, streamvars, pairvars>>

NextNeg ==
  \/ handle_accept
  \/ read_packetlen_neg
  \/ read_milter_data_neg
  \/ setup
  \/ handle_recv_packetlen_neg
  \/ handle_recv_data_neg

SpecNeg == InitNeg /\ [][NextNeg]_vars

-----------------------------------------------------------------------------
(* A server with several connections open: each connection's              *)
(* ConnectionHandler holds a reference to its dispatcher's handler        *)
(* instance in the heap, and an instance counts the commands it is given.  *)

\* the packets the MTA sends in this specification
MultiPackets == { <<Ord.M, Ord.a, 0>>, <<Ord.Q>> }

\* the handler classes of this specification
MultiClasses ==
  { [ppy |-> TRUE, user |-> {}, can |-> {}],
    [ppy |-> TRUE, user |-> {"OnMailFrom"}, can |-> {}] }

\* a handler instance shared by all the dispatchers of the process
NewMilter_Shared(h, cls) ==
  IF h = <<>>
  THEN [heap |-> <<[self |-> PpyMilterInit(cls), received |-> 0]>>,
        ref |-> 1]
  ELSE [heap |-> h, ref |-> 1]

\* PpyMilterDispatcher.__init__: self.__milter = milter_class(), a new
\* object; ref is the reference the dispatcher keeps
NewMilter(h, cls) ==
  [heap |-> Append(h, [self |-> PpyMilterInit(cls), received |-> 0]),
   ref |-> Len(h) + 1]

InitMulti ==
  /\ transport \in {"async", "threaded"}
  /\ milter_class \in MultiClasses
  /\ ConnInit
  /\ ack = NoAck
  /\ MultiInit
  /\ StreamInit

\* handle_accept (async) or setup (threaded) for connection c
Accepted(c) ==
  LET new == NewMilter(heap, milter_class)
  IN  /\ ~conns[c].accepted
      /\ heap' = new.heap
      /\ conns' = [conns EXCEPT ![c] = [accepted |-> TRUE, closed |-> FALSE,
                                        milter |-> new.ref, commands |-> 0]]
      /\ UNCHANGED event

handle_accept_multi ==
  /\ transport = "async"
  /\ \E c \in Conns : Accepted(c)
  /\ UNCHANGED <<connvars, negvars, streamvars, pairvars>>

setup_multi ==
  /\ transport = "threaded"
  /\ \E c \in Conns : Accepted(c)
  /\ UNCHANGED <<connvars, negvars, streamvars, pairvars>>

\* one whole frame with packet p arrived on connection c: the data callback
\* of c's ConnectionHandler dispatches it to the handler instance c's
\* dispatcher refers to and writes the response on c's own socket
Served(c, p, b) ==
  LET ref == conns[c].milter
      outcome == Dispatch(heap[ref].self, p, b)
  IN  /\ conns[c].accepted
      /\ ~conns[c].closed
      /\ conns[c].commands < MaxCmds
      /\ heap' = [heap EXCEPT ![ref].received = @ + 1]
      /\ conns' = [conns EXCEPT
                     ![c].commands = @ + 1,
                     ![c].closed = (outcome.result.kind = "raise")]
      /\ event' = [dispatched |-> TRUE, conn |-> c, milter |-> ref,
                   socket |-> c, packet |-> p,
                   sent |-> IF outcome.result.kind = "return"
                            THEN Writes(outcome.result.value) ELSE <<>>]

read_milter_data_multi ==
  /\ transport = "async"
  /\ \E c \in Conns : \E p \in MultiPackets :
       /\ conns[c].accepted
       /\ \E b \in BehavioursFor(heap[conns[c].milter].self, p) :
            Served(c, p, b)
  /\ UNCHANGED <<connvars, negvars, streamvars, pairvars>>

handle_multi ==
  /\ transport = "threaded"
  /\ \E c \in Conns : \E p \in MultiPackets :
       /\ conns[c].accepted
       /\ \E b \in BehavioursFor(heap[conns[c].milter].self, p) :
            Served(c, p, b)
  /\ UNCHANGED <<connvars, negvars, streamvars, pairvars>>

NextMulti ==
  \/ handle_accept_multi
  \/ setup_multi
  \/ read_milter_data_multi
  \/ handle_multi

SpecMulti == InitMulti /\ [][NextMulti]_vars

-----------------------------------------------------------------------------
(* The byte streams of one connection: the MTA's frames arrive as a TCP   *)
(* stream that recv returns in pieces of any size, and the socket takes    *)
(* the server's writes in pieces of any size.                              *)

\* the frames the MTA sends on one connection
MaxFrames == 2

\* the payloads the MTA sends in this specification
StreamPackets == { <<>>, <<Ord.Q>>, <<Ord.M, Ord.a, 0>> }

\* the handler classes of this specification
StreamClasses ==
  { [ppy |-> TRUE, user |-> {}, can |-> {}],
    [ppy |-> TRUE, user |-> {"OnMailFrom"}, can |-> {}] }

\* "".join(pieces)
RECURSIVE Join(_)
Join(pieces) ==
  IF pieces = <<>> THEN <<>> ELSE Head(pieces) \o Join(Tail(pieces))

\* the bytes the MTA sends for a sequence of payloads: each one after its
\* length in four bytes
RECURSIVE Encode(_)
Encode(payloads) ==
  IF payloads = <<>> THEN <<>>
  ELSE PackI(Len(Head(payloads))) \o Head(payloads) \o Encode(Tail(payloads))

\* what the socket may have taken of a sequence of send() calls, each of
\* which returns how much of its argument it took: at least one byte
RECURSIVE ShortWrites(_)
ShortWrites(writes) ==
  IF writes = <<>> THEN {<<>>}
  ELSE LET w == Head(writes)
       IN  {SubSeq(w, 1, k) \o rest :
              k \in (IF w = <<>> THEN {0} ELSE 1..Len(w)),
              rest \in ShortWrites(Tail(writes))}

InitStream ==
  /\ transport \in {"async", "threaded"}
  /\ milter_class \in StreamClasses
  /\ ConnInit
  /\ ack = NoAck
  /\ MultiInit
  /\ frames \in SeqsUpTo(StreamPackets, MaxFrames) \ {<<>>}
  /\ stream = Encode(frames)
  /\ ac_in_buffer = <<>>
  /\ ac_out = <<>>
  /\ wire = <<>>
  /\ delivered = <<>>
  /\ owed = <<>>
  /\ observed = NoRun

\* asynchat's handle_read goes through ac_in_buffer until it is empty: an
\* exception that leaves found_terminator ends the loop (handle_error), the
\* self.close() of read_milter_data does not
LoopRuns ==
  closed => (last.dispatched
               /\ last.outcome.raised = "PpyMilterCloseConnection")

\* asynchat's handle_read: recv returns some of the bytes that have arrived
handle_read ==
  /\ transport = "async"
  /\ milter # NoMilter
  /\ ~closed
  /\ ac_in_buffer = <<>>
  /\ stream # <<>>
  /\ \E k \in 1..Len(stream) :
       /\ ac_in_buffer' = SubSeq(stream, 1, k)
       /\ stream' = From(stream, k)
  /\ UNCHANGED <<connvars, negvars, multivars, pairvars>>
  /\ UNCHANGED <<frames, ac_out, wire, delivered, owed>>

\* asynchat's handle_read loop with fewer bytes in its buffer than the
\* terminator asks for, or with a terminator of 0: collect_incoming_data is
\* given them all
collect_incoming_data ==
  /\ transport = "async"
  /\ milter # NoMilter
  /\ LoopRuns
  /\ ac_in_buffer # <<>>
  /\ terminator = 0 \/ Len(ac_in_buffer) < terminator
  /\ input' = input \o ac_in_buffer
  /\ terminator' = IF terminator = 0 THEN 0
                   ELSE terminator - Len(ac_in_buffer)
  /\ ac_in_buffer' = <<>>
  /\ UNCHANGED <<transport, milter_class, milter, found_terminator, pc,
                 packetlen, closed, sent, last, prev>>
  /\ UNCHANGED <<negvars, multivars, pairvars>>
  /\ UNCHANGED <<frames, stream, ac_out, wire, delivered, owed>>

\* asynchat's handle_read loop with the rest of a length in its buffer:
\* collect_incoming_data is given that rest, then read_packetlen is called
read_packetlen_stream ==
  /\ transport = "async"
  /\ milter # NoMilter
  /\ LoopRuns
  /\ found_terminator = "read_packetlen"
  /\ terminator > 0
  /\ Len(ac_in_buffer) >= terminator
  /\ ReadPacketlen(input \o SubSeq(ac_in_buffer, 1, terminator))
  /\ ac_in_buffer' = From(ac_in_buffer, terminator)
  /\ UNCHANGED <<negvars, multivars, pairvars>>
  /\ UNCHANGED <<frames, stream, ac_out, wire, delivered, owed>>

\* asynchat's handle_read loop with the rest of a packet in its buffer:
\* collect_incoming_data is given that rest, then read_milter_data is
\* called; what it pushes is queued for the socket
read_milter_data_stream ==
  /\ transport = "async"
  /\ milter # NoMilter
  /\ LoopRuns
  /\ found_terminator = "read_milter_data"
  /\ terminator > 0
  /\ Len(ac_in_buffer) >= terminator
  /\ LET inbuff == input \o SubSeq(ac_in_buffer, 1, terminator)
     IN  /\ \E b \in BehavioursFor(milter, inbuff) : ReadMilterData(inbuff, b)
         /\ delivered' = Append(delivered, inbuff)
  /\ ac_in_buffer' = From(ac_in_buffer, terminator)
  /\ owed' = Append(owed, Join(sent'))
  /\ ac_out' = ac_out \o Join(sent')
  /\ UNCHANGED <<negvars, multivars, pairvars>>
  /\ UNCHANGED <<frames, stream, wire>>

\* asynchat's handle_write / initiate_send: the socket takes some of the
\* bytes pushed, the rest stays queued
handle_write ==
  /\ transport = "async"
  /\ milter # NoMilter
  /\ ~closed
  /\ ac_out # <<>>
  /\ \E k \in 1..Len(ac_out) :
       /\ wire' = wire \o SubSeq(ac_out, 1, k)
       /\ ac_out' = From(ac_out, k)
  /\ UNCHANGED <<connvars, negvars, multivars, pairvars>>
  /\ UNCHANGED <<frames, stream, ac_in_buffer, delivered, owed>>

\* handle: recv(MILTER_LEN_BYTES) returns up to four of the bytes that have
\* arrived; struct.unpack raises struct.error on fewer than four, which the
\* except clause of handle catches
handle_recv_packetlen_stream ==
  /\ transport = "threaded"
  /\ ~closed
  /\ pc = "recv_packetlen"
  /\ stream # <<>>
  /\ \E k \in 1..MILTER_LEN_BYTES :
       /\ k <= Len(stream)
       /\ stream' = From(stream, k)
       /\ IF k = MILTER_LEN_BYTES
          THEN HandleRecvPacketlen(SubSeq(stream, 1, k))
          ELSE /\ pc' = "done"
               /\ closed' = TRUE
               /\ prev' = IF last.dispatched THEN Summary(last) ELSE prev
               /\ last' = NoDispatch
               /\ sent' = <<>>
               /\ UNCHANGED <<transport, milter_class, milter,
                              found_terminator, terminator, input, packetlen>>
  /\ UNCHANGED <<negvars, multivars, pairvars>>
  /\ UNCHANGED <<frames, ac_in_buffer, ac_out, wire, delivered, owed>>

\* handle: recv(packetlen) returns up to packetlen of the bytes that have
\* arrived (none when packetlen is 0), then the rest of the loop body; each
\* send() hands the socket as much of its argument as the socket takes
handle_recv_data_stream ==
  /\ transport = "threaded"
  /\ ~closed
  /\ pc = "recv_data"
  /\ packetlen = 0 \/ stream # <<>>
  /\ \E k \in 0..Len(stream) :
       /\ k <= packetlen
       /\ k = 0 <=> packetlen = 0
       /\ LET data == SubSeq(stream, 1, k)
          IN  /\ \E b \in BehavioursFor(milter, data) : HandleRecvData(data, b)
              /\ delivered' = Append(delivered, data)
       /\ stream' = From(stream, k)
  /\ owed' = Append(owed, Join(sent'))
  /\ \E taken \in ShortWrites(sent') : wire' = wire \o taken
  /\ UNCHANGED <<negvars, multivars, pairvars>>
  /\ UNCHANGED <<frames, ac_in_buffer, ac_out>>

NextStream ==
  \/ handle_accept
  \/ handle_read
  \/ collect_incoming_data
  \/ read_packetlen_stream
  \/ read_milter_data_stream
  \/ handle_write
  \/ setup
  \/ handle_recv_packetlen_stream
  \/ handle_recv_data_stream

SpecStream == InitStream /\ [][NextStream]_vars

-----------------------------------------------------------------------------
(* The MTA closes the connection: it has sent the first bytes of what its  *)
(* frames encode to, whole frames or not, and has closed its end, so that  *)
(* recv returns '' once the server has read them.                          *)

\* what the MTA may have sent of the bytes before it closed
Cuts(bytes) == {SubSeq(bytes, 1, n) : n \in 0..Len(bytes)}

InitClose ==
  /\ transport \in {"async", "threaded"}
  /\ milter_class \in StreamClasses
  /\ ConnInit
  /\ ack = NoAck
  /\ MultiInit
  /\ frames \in SeqsUpTo(StreamPackets, MaxFrames) \ {<<>>}
  /\ stream \in Cuts(Encode(frames))
  /\ ac_in_buffer = <<>>
  /\ ac_out = <<>>
  /\ wire = <<>>
  /\ delivered = <<>>
  /\ owed = <<>>
  /\ observed = NoRun

\* asyncore's handle_read_event on the MTA's close: recv returns '', the
\* dispatcher's handle_close closes the channel; what collect_incoming_data
\* has put in self.__input goes with the ConnectionHandler
handle_close ==
  /\ transport = "async"
  /\ milter # NoMilter
  /\ ~closed
  /\ ac_in_buffer = <<>>
  /\ stream = <<>>
  /\ closed' = TRUE
  /\ UNCHANGED <<transport, milter_class, milter, found_terminator,
                 terminator, input, pc, packetlen, sent, last, prev>>
  /\ UNCHANGED <<negvars, multivars, streamvars, pairvars>>

\* handle: recv(MILTER_LEN_BYTES) returns '' on the MTA's close;
\* struct.unpack raises struct.error, which the except clause of handle
\* catches
handle_recv_packetlen_eof ==
  /\ transport = "threaded"
  /\ ~closed
  /\ pc = "recv_packetlen"
  /\ stream = <<>>
  /\ pc' = "done"
  /\ closed' = TRUE
  /\ prev' = IF last.dispatched THEN Summary(last) ELSE prev
  /\ last' = NoDispatch
  /\ sent' = <<>>
  /\ UNCHANGED <<transport, milter_class, milter, found_terminator,
                 terminator, input, packetlen>>
  /\ UNCHANGED <<negvars, multivars, streamvars, pairvars>>

\* handle: recv(packetlen) returns '' on the MTA's close, then the rest of
\* the loop body with data = ''
handle_recv_data_eof ==
  /\ transport = "threaded"
  /\ ~closed
  /\ pc = "recv_data"
  /\ packetlen > 0
  /\ stream = <<>>
  /\ \E b \in BehavioursFor(milter, <<>>) : HandleRecvData(<<>>, b)
  /\ delivered' = Append(delivered, <<>>)
  /\ owed' = Append(owed, Join(sent'))
  /\ \E taken \in ShortWrites(sent') : wire' = wire \o taken
  /\ UNCHANGED <<negvars, multivars, pairvars>>
  /\ UNCHANGED <<frames, stream, ac_in_buffer, ac_out>>

NextClose ==
  \/ handle_accept
  \/ handle_read
  \/ collect_incoming_data
  \/ read_packetlen_stream
  \/ read_milter_data_stream
  \/ handle_write
  \/ handle_close
  \/ setup
  \/ handle_recv_packetlen_stream
  \/ handle_recv_data_stream
  \/ handle_recv_packetlen_eof
  \/ handle_recv_data_eof

SpecClose == InitClose /\ [][NextClose]_vars

-----------------------------------------------------------------------------
(* Both transports on the same input: the async server is given the        *)
(* frames, each one whole, and what it did is put on record; the threaded  *)
(* server is then given the same frames, with a handler of the same class  *)
(* whose callbacks do the same.                                            *)

\* the payloads the MTA sends in this specification, each of a byte or more
PairPackets == { <<Ord.Q>>, <<Ord.M, Ord.a, 0>>, <<Ord.X>> }

\* a frame is still to be read
MoreFrames == Len(delivered) < Len(frames)

\* the frame the server reads next
NextFrame == frames[Len(delivered) + 1]

\* the handler's callbacks do the same thing whenever they are called
Follows(b, packet) ==
  observed.policy \in BehavioursFor(milter, packet) => b = observed.policy

InitPair ==
  /\ transport = "async"
  /\ milter_class \in StreamClasses
  /\ ConnInit
  /\ ack = NoAck
  /\ MultiInit
  /\ frames \in SeqsUpTo(PairPackets, MaxFrames) \ {<<>>}
  /\ stream = <<>>
  /\ ac_in_buffer = <<>>
  /\ ac_out = <<>>
  /\ wire = <<>>
  /\ delivered = <<>>
  /\ owed = <<>>
  /\ \E b \in Behaviours : observed = [NoRun EXCEPT !.policy = b]

\* asynchat has collected the four bytes of the next frame's length
read_packetlen_pair ==
  /\ AwaitsPacketlen
  /\ MoreFrames
  /\ ReadPacketlen(PackI(Len(NextFrame)))
  /\ UNCHANGED <<negvars, multivars, streamvars, pairvars>>

\* asynchat has collected the next frame's payload; what read_milter_data
\* pushes is queued for the socket
read_milter_data_pair ==
  /\ AwaitsMilterData
  /\ MoreFrames
  /\ \E b \in BehavioursFor(milter, NextFrame) :
       /\ Follows(b, NextFrame)
       /\ ReadMilterData(NextFrame, b)
  /\ delivered' = Append(delivered, NextFrame)
  /\ owed' = Append(owed, Join(sent'))
  /\ ac_out' = ac_out \o Join(sent')
  /\ UNCHANGED <<negvars, multivars, pairvars>>
  /\ UNCHANGED <<frames, stream, ac_in_buffer, wire>>

\* the async server has closed the connection, or has read every frame and
\* written what it had queued: what it did goes on record and the frames go
\* to a threaded server
replay ==
  /\ transport = "async"
  /\ milter # NoMilter
  /\ closed \/ (~MoreFrames /\ ac_out = <<>>)
  /\ observed' = [observed EXCEPT !.done = TRUE, !.delivered = delivered,
                                  !.owed = owed, !.wire = wire,
                                  !.closed = closed]
  /\ transport' = "threaded"
  /\ milter' = NoMilter
  /\ found_terminator' = ""
  /\ terminator' = 0
  /\ input' = <<>>
  /\ pc' = "setup"
  /\ packetlen' = 0
  /\ closed' = FALSE
  /\ sent' = <<>>
  /\ last' = NoDispatch
  /\ prev' = NoPrev
  /\ ac_out' = <<>>
  /\ wire' = <<>>
  /\ delivered' = <<>>
  /\ owed' = <<>>
  /\ UNCHANGED <<milter_class, frames, stream, ac_in_buffer>>
  /\ UNCHANGED <<negvars, multivars>>

\* handle: recv(MILTER_LEN_BYTES) returns the four bytes of the next
\* frame's length
handle_recv_packetlen_pair ==
  /\ transport = "threaded"
  /\ ~closed
  /\ pc = "recv_packetlen"
  /\ MoreFrames
  /\ HandleRecvPacketlen(PackI(Len(NextFrame)))
  /\ UNCHANGED <<negvars, multivars, streamvars, pairvars>>

\* handle: recv(packetlen) returns the next frame's payload, then the rest
\* of the loop body; each send() hands the socket as much of its argument
\* as the socket takes
handle_recv_data_pair ==
  /\ transport = "threaded"
  /\ ~closed
  /\ pc = "recv_data"
  /\ MoreFrames
  /\ \E b \in BehavioursFor(milter, NextFrame) :
       /\ Follows(b, NextFrame)
       /\ HandleRecvData(NextFrame, b)
  /\ delivered' = Append(delivered, NextFrame)
  /\ owed' = Append(owed, Join(sent'))
  /\ \E taken \in ShortWrites(sent') : wire' = wire \o taken
  /\ UNCHANGED <<negvars, multivars, pairvars>>
  /\ UNCHANGED <<frames, stream, ac_in_buffer, ac_out>>

NextPair ==
  \/ handle_accept
  \/ read_packetlen_pair
  \/ read_milter_data_pair
  \/ handle_write
  \/ replay
  \/ setup
  \/ handle_recv_packetlen_pair
  \/ handle_recv_data_pair

SpecPair == InitPair /\ [][NextPair]_vars

-----------------------------------------------------------------------------
(* State functions the properties are written with *)

\* the command code of the packet of the latest Dispatch (-1: empty packet)
LastCmd == IF Len(last.packet) = 0 THEN -1 ELSE last.packet[1]

\* the connection is open and the transport is about to read the next length
ReadingNext ==
  /\ ~closed
  /\ IF transport = "async"
     THEN /\ found_terminator = "read_packetlen"
          /\ terminator = 4
          /\ input = <<>>
     ELSE pc = "recv_packetlen"

\* the one frame a response is written as: its length in four bytes, then it
Frame(response) == << <<0, 0, 0, Len(response)>>, response >>

\* the fourteen command codes A B C D E H L M N O Q R T U
CommandCodes == {65, 66, 67, 68, 69, 72, 76, 77, 78, 79, 81, 82, 84, 85}

\* the callback the specification maps each command code to
CallbackOf ==
  (65 :> "OnAbort") @@ (66 :> "OnBody") @@ (67 :> "OnConnect") @@
  (68 :> "OnMacro") @@ (69 :> "OnEndBody") @@ (72 :> "OnHelo") @@
  (76 :> "OnHeader") @@ (77 :> "OnMailFrom") @@ (78 :> "OnEndHeaders") @@
  (79 :> "OnOptNeg") @@ (82 :> "OnRcptTo") @@ (81 :> "OnQuit") @@
  (84 :> "OnData") @@ (85 :> "OnUnknown")

\* the handler has a method of that name
Implements(name) == name \in milter_class.user
                    \/ (milter_class.ppy /\ name \in {"OnOptNeg", "OnMacro", "OnQuit"})

\* what the handler's method of that name did in the latest Dispatch, had it
\* been called: PpyMilter's own OnQuit raises, its OnMacro returns None
QuitRaisesClose ==
  /\ Implements("OnQuit")
  /\ "OnQuit" \in milter_class.user
       => last.behaviour = Raise("PpyMilterCloseConnection")

-----------------------------------------------------------------------------
(* C1 *)

\* C1 as stated: after a Quit command is dispatched the connection is closed
\* and nothing was written for it, whatever the handler's OnQuit does and
\* whether or not it exists.
C1_QuitAlwaysCloses ==
  (last.dispatched /\ LastCmd = 81) => (closed /\ sent = <<>>)

\* C1 amended: after a Quit command is dispatched, the connection is closed
\* and nothing was written for it when the handler's OnQuit raised
\* PpyMilterCloseConnection (as PpyMilter's own OnQuit does); when OnQuit
\* does not exist the Continue response is written and the connection stays
\* open, when it returns None nothing is written and the connection stays
\* open, and when it returns the Continue tuple that response is written and
\* the connection stays open.
C1_QuitClosesWhenOnQuitRaises ==
  (last.dispatched /\ LastCmd = 81) =>
    /\ QuitRaisesClose => (closed /\ sent = <<>>)
    /\ ~Implements("OnQuit") => (ReadingNext /\ sent = Frame(<<99>>))
    /\ ("OnQuit" \in milter_class.user /\ last.behaviour = Return(PyNone))
         => (ReadingNext /\ sent = <<>>)
    /\ ("OnQuit" \in milter_class.user /\ last.behaviour = Return(Continue))
         => (ReadingNext /\ sent = Frame(<<99>>))

\* a Quit was dispatched to PpyMilter's own OnQuit and the connection closed
C1_Witness ==
  /\ last.dispatched /\ LastCmd = 81
  /\ milter_class.ppy /\ "OnQuit" \notin milter_class.user
  /\ last.outcome.called = <<"OnQuit">>
  /\ closed

-----------------------------------------------------------------------------
(* C2 *)

\* the transport reads the next length when it is given one
NextIsRead == ENABLED (read_packetlen \/ handle_recv_packetlen)

\* C2: when the handler callback raised PpyMilterTempFailure, Dispatch
\* returned exactly 't' and that response was written; when it raised
\* PpyMilterPermFailure, exactly 'r'; in both cases the connection is open
\* and the next command is read, and every command is dispatched to the one
\* handler instance the connection was given.
C2_FailuresAnswered ==
  /\ [](/\ (last.dispatched /\ last.outcome.raised = "PpyMilterTempFailure")
             => /\ last.outcome.result = Return(PyStr(<<116>>))
                /\ sent = Frame(<<116>>)
                /\ ReadingNext /\ NextIsRead
        /\ (last.dispatched /\ last.outcome.raised = "PpyMilterPermFailure")
             => /\ last.outcome.result = Return(PyStr(<<114>>))
                /\ sent = Frame(<<114>>)
                /\ ReadingNext /\ NextIsRead)
  /\ [][milter # NoMilter => milter' = milter]_vars

\* a command was dispatched, and the handler raised PpyMilterPermFailure,
\* after a command for which it had raised PpyMilterTempFailure
C2_Witness ==
  /\ last.dispatched
  /\ prev.raised = "PpyMilterTempFailure"
  /\ last.outcome.raised = "PpyMilterPermFailure"
  /\ sent = Frame(<<114>>)

-----------------------------------------------------------------------------
(* C3 *)

\* C3: when the handler callback raised PpyMilterCloseConnection, for any
\* command and in either transport, nothing was written for that command,
\* the connection is closed and the transport takes no further step on it.
C3_CloseConnectionCloses ==
  (last.dispatched /\ last.outcome.raised = "PpyMilterCloseConnection")
    => /\ sent = <<>>
       /\ closed
       /\ ~ENABLED Next

\* the handler's own callback raised PpyMilterCloseConnection for a MailFrom
\* on a threaded connection, which is now closed
C3_Witness ==
  /\ transport = "threaded"
  /\ last.dispatched /\ LastCmd = 77
  /\ last.outcome.called = <<"OnMailFrom">>
  /\ last.outcome.raised = "PpyMilterCloseConnection"
  /\ closed

-----------------------------------------------------------------------------
(* C4 *)

\* the handler callback returned a value that is not None and not a pair
MalformedResult ==
  /\ last.dispatched
  /\ last.outcome.called # <<>>
  /\ last.outcome.called[1] \in milter_class.user
  /\ last.behaviour.kind = "return"
  /\ last.behaviour.value # PyNone
  /\ ~(last.behaviour.value.type = "tuple"
       /\ Len(last.behaviour.value.val) = 2)

\* the handler callback raised an error other than the three of ppymilter
OtherError ==
  /\ last.dispatched
  /\ last.outcome.raised
       \notin {"", "PpyMilterTempFailure", "PpyMilterPermFailure",
               "PpyMilterCloseConnection"}

\* C4 as stated: when the handler callback raised any other error, or
\* returned a malformed result, nothing was written for the command and the
\* connection is closed.
C4_ErrorsAndMalformedClose ==
  (OtherError \/ MalformedResult) => (sent = <<>> /\ closed)

\* C4 amended: when the handler callback raised any other error, or returned
\* a tuple that does not have exactly two items, nothing was written for the
\* command and the connection is closed; when it returned a value that is
\* not iterable (an integer, as for None) nothing was written for the
\* command and the connection stays open, reading the next command.
C4_ErrorsClose ==
  /\ OtherError => (sent = <<>> /\ closed /\ ~ENABLED Next)
  /\ (MalformedResult /\ last.behaviour.value.type = "tuple")
       => (sent = <<>> /\ closed /\ ~ENABLED Next)
  /\ (MalformedResult /\ last.behaviour.value.type = "int")
       => (sent = <<>> /\ ReadingNext)

\* the handler's callback raised KeyError and the connection is closed
C4_Witness ==
  /\ last.dispatched
  /\ last.outcome.called # <<>>
  /\ last.behaviour = Raise("KeyError")
  /\ last.outcome.raised = "KeyError"
  /\ closed

-----------------------------------------------------------------------------
(* C5 *)

\* C5: for every packet whose first byte is not one of the fourteen command
\* codes, whatever follows it, Dispatch returned exactly 'c', called no
\* parser and no handler method, and the connection is open, reading the
\* next command.
C5_UnknownCommandContinues ==
  (last.dispatched /\ Len(last.packet) > 0 /\ LastCmd \notin CommandCodes)
    => /\ last.outcome.result = Return(PyStr(<<99>>))
       /\ last.outcome.called = <<>>
       /\ last.outcome.parsed = <<>>
       /\ sent = Frame(<<99>>)
       /\ ReadingNext

\* a packet of code 'X' with a payload was dispatched to a handler that has
\* every callback
C5_Witness ==
  /\ last.dispatched
  /\ Len(last.packet) > 1 /\ LastCmd = 88
  /\ milter_class.user = CallbackNames
  /\ last.outcome.result = Return(PyStr(<<99>>))

-----------------------------------------------------------------------------
(* C6 *)

RECURSIVE Pow2(_)
Pow2(i) == IF i = 0 THEN 1 ELSE 2 * Pow2(i - 1)

\* the positions of the bits set in a mask below 2^31 (the model's integers
\* have 32 bits with the sign; the masks the model's MTA sends stay below)
Bits(n) == {i \in 0..30 : (n \div Pow2(i)) % 2 = 1}

\* the number four bytes stand for, most significant byte first
BigEndian(b) == b[1] * Pow2(24) + b[2] * Pow2(16) + b[3] * Pow2(8) + b[4]

\* the bit every Can*() registers and the skip bit of every callback
ActionBit ==
  [CanAddHeaders |-> 0, CanChangeBody |-> 1, CanAddRecipient |-> 2,
   CanDeleteRecipient |-> 3, CanChangeHeaders |-> 4, CanQuarentine |-> 5]

SkipBit ==
  [OnConnect |-> 0, OnHelo |-> 1, OnMailFrom |-> 2, OnRcptTo |-> 3,
   OnBody |-> 4, OnHeader |-> 5, OnEndHeaders |-> 6]

AdvertisedActionBits == {ActionBit[c] : c \in milter_class.can}

AdvertisedProtocolBits ==
  (0..6) \ {SkipBit[c] : c \in milter_class.user \cap DOMAIN SkipBit}

\* an OptNeg of twelve payload bytes was dispatched to PpyMilter's OnOptNeg
OptNegAnswered ==
  /\ last.dispatched
  /\ LastCmd = 79 /\ Len(last.packet) = 13
  /\ milter_class.ppy /\ "OnOptNeg" \notin milter_class.user

\* the reply to it is 'O' and three big-endian words: the version given,
\* the advertised actions the peer offers, the advertised skip bits the
\* peer offers
OptNegAck(version) ==
  LET peer == last.packet
      reply == last.outcome.result.value.val
  IN  /\ last.outcome.result.kind = "return"
      /\ last.outcome.result.value.type = "str"
      /\ Len(reply) = 13
      /\ \A i \in 1..13 : reply[i] \in 0..255
      /\ reply[1] = 79
      /\ BigEndian(SubSeq(reply, 2, 5)) = version
      /\ Bits(BigEndian(SubSeq(reply, 6, 9)))
           = AdvertisedActionBits \cap Bits(BigEndian(SubSeq(peer, 6, 9)))
      /\ Bits(BigEndian(SubSeq(reply, 10, 13)))
           = AdvertisedProtocolBits \cap Bits(BigEndian(SubSeq(peer, 10, 13)))
      /\ sent = Frame(reply)

PeerVersion == BigEndian(SubSeq(last.packet, 2, 5))

\* C6 as stated: the reply to every OptNeg carries the version
\* min(2, peer_version), the advertised actions masked by the peer's and the
\* advertised protocol mask masked by the peer's.
C6_OptNegMinVersion ==
  OptNegAnswered => OptNegAck(IF PeerVersion < 2 THEN PeerVersion ELSE 2)

\* C6 amended: the reply of PpyMilter's OnOptNeg to every OptNeg is an
\* OptNegAck whose three big-endian u32 fields are version = 2, whatever the
\* peer's version, actions_mask = advertised_actions & peer_actions and
\* protocol_mask = advertised_protocol & peer_protocol.
C6_OptNegVersionTwo ==
  OptNegAnswered => OptNegAck(2)

\* a handler that registered two actions and implements OnMailFrom answered
\* an OptNeg of version 1 whose masks have bits beyond the lowest byte
C6_Witness ==
  /\ OptNegAnswered
  /\ milter_class.can = {"CanAddHeaders", "CanAddRecipient"}
  /\ milter_class.user = {"OnMailFrom"}
  /\ last.packet = <<79, 0, 0, 0, 1, 1, 0, 0, 1, 0, 0, 1, 127>>
  /\ last.outcome.result.value.val
       = <<79, 0, 0, 0, 2, 0, 0, 0, 1, 0, 0, 0, 123>>

-----------------------------------------------------------------------------
(* C7 *)

\* C7: the advertised protocol mask of a handler is 0x7F with exactly the
\* skip bits cleared of those of OnConnect, OnHelo, OnMailFrom, OnRcptTo,
\* OnBody, OnHeader and OnEndHeaders that the handler implements, for every
\* set of callbacks it implements; no other callback clears a bit.
C7_SkipBits ==
  (milter # NoMilter /\ milter_class.ppy)
    => /\ milter.protocol \in 0..127
       /\ Bits(milter.protocol) = AdvertisedProtocolBits

\* a handler implementing OnHeader, OnEndBody and OnQuit was constructed:
\* its mask is 0x7F without 0x20
C7_Witness ==
  /\ milter # NoMilter
  /\ milter_class.user = {"OnHeader", "OnEndBody", "OnQuit"}
  /\ milter.protocol = 95

-----------------------------------------------------------------------------
(* C8 *)

\* the number of NUL bytes in a string
RECURSIVE CountNul(_)
CountNul(s) ==
  IF s = <<>> THEN 0
  ELSE (IF Head(s) = 0 THEN 1 ELSE 0) + CountNul(Tail(s))

\* the position of the first NUL byte of a string that has one
FirstNul(s) == CHOOSE i \in 1..Len(s) : s[i] = 0 /\ \A j \in 1..(i - 1) : s[j] # 0

\* the payload is of the form the command decoder expects for the code
WellFormed(packet) ==
  LET code == packet[1]
      payload == SubSeq(packet, 2, Len(packet))
  IN  CASE code = 79 -> Len(payload) = 12
        [] code = 68 -> Len(payload) >= 1
        [] code = 67 -> /\ CountNul(payload) >= 1
                        /\ Len(payload) - FirstNul(payload) >= 3
        [] code \in {77, 82} -> CountNul(payload) >= 1
        [] code = 76 -> /\ CountNul(payload) = 2
                        /\ payload[Len(payload)] = 0
        [] OTHER -> TRUE

\* C8: for each of the fourteen command codes, when the handler implements
\* the callback the code is mapped to, dispatching a well-formed packet of
\* that code calls exactly that callback, once, and no other.
C8_EveryCommandRouted ==
  (/\ last.dispatched
   /\ LastCmd \in CommandCodes
   /\ WellFormed(last.packet)
   /\ Implements(CallbackOf[LastCmd]))
    => last.outcome.called = <<CallbackOf[LastCmd]>>

-----------------------------------------------------------------------------
(* C9 *)

\* C9: when the command code is one of the fourteen and the handler has no
\* method for it, Dispatch returned exactly 'c' whatever the payload, called
\* no parser, and the connection is open, reading the next command.
C9_UnimplementedContinues ==
  (/\ last.dispatched
   /\ LastCmd \in CommandCodes
   /\ ~Implements(CallbackOf[LastCmd]))
    => /\ last.outcome.result = Return(PyStr(<<99>>))
       /\ last.outcome.parsed = <<>>
       /\ last.outcome.called = <<>>
       /\ sent = Frame(<<99>>)
       /\ ReadingNext

\* an OptNeg whose payload is too short to unpack was dispatched to a
\* handler without OnOptNeg, and answered by 'c'
C9_Witness ==
  /\ last.dispatched
  /\ LastCmd = 79 /\ Len(last.packet) = 2
  /\ ~Implements("OnOptNeg")
  /\ sent = Frame(<<99>>)
  /\ ~closed

-----------------------------------------------------------------------------
(* C10 *)

\* a Macro command with its macro_cmd byte was dispatched to PpyMilter's
\* OnMacro
DefaultMacro ==
  /\ last.dispatched
  /\ LastCmd = 68 /\ Len(last.packet) >= 2
  /\ milter_class.ppy /\ "OnMacro" \notin milter_class.user

\* C10: a Macro command handled by PpyMilter's OnMacro writes nothing and
\* leaves the connection open and as it was before the Macro arrived (the
\* handler instance unchanged, the transport reading the next length), be
\* it the first command of the connection or one after another command.
C10_MacroSilent ==
  /\ [](DefaultMacro
          => /\ sent = <<>>
             /\ last.outcome.result = Return(PyNone)
             /\ last.outcome.called = <<"OnMacro">>
             /\ ReadingNext /\ NextIsRead)
  /\ [][DefaultMacro' => (milter' = milter /\ closed' = closed)]_vars

\* a MailFrom was dispatched and answered right after a Macro that
\* PpyMilter's OnMacro handled, itself not the first command
C10_Witness ==
  /\ milter_class.ppy /\ "OnMacro" \notin milter_class.user
  /\ prev.cmd = 68
  /\ last.dispatched /\ LastCmd = 77
  /\ last.outcome.called = <<"OnMailFrom">>
  /\ sent = Frame(<<99>>)

-----------------------------------------------------------------------------
(* C11 *)

\* C11: after an Abort command is dispatched the connection is open, exactly
\* the Continue response 'c' was written for it in one frame and the
\* transport reads the next command, whatever the handler's OnAbort would do
\* (return nothing included); every command, before and after the Abort, is
\* dispatched to the one handler instance the connection was given.
C11_AbortContinues ==
  /\ []((last.dispatched /\ LastCmd = 65)
          => /\ last.outcome.result = Return(PyStr(<<99>>))
             /\ sent = Frame(<<99>>)
             /\ ReadingNext /\ NextIsRead)
  /\ [][(milter # NoMilter /\ (LastCmd = 65 \/ prev.cmd = 65))
          => milter' = milter]_vars

\* a MailFrom was dispatched to the handler's OnMailFrom right after an
\* Abort, on a connection whose handler defines OnAbort
C11_Witness ==
  /\ "OnAbort" \in milter_class.user
  /\ prev.cmd = 65
  /\ last.dispatched /\ LastCmd = 77
  /\ last.outcome.called = <<"OnMailFrom">>
  /\ ~closed

-----------------------------------------------------------------------------
(* C13 *)

\* the handler's callback returned a list of responses in the latest
\* Dispatch
Batch ==
  /\ last.dispatched
  /\ last.outcome.called # <<>>
  /\ last.behaviour.kind = "return"
  /\ last.behaviour.value.type = "list"

\* the frames of a list of (code, payload) responses, one after the other
RECURSIVE FramesOf(_)
FramesOf(responses) ==
  IF responses = <<>> THEN <<>>
  ELSE Frame(Head(responses).val[1].val \o Head(responses).val[2].val)
       \o FramesOf(Tail(responses))

\* C13 as stated: when the handler's callback returned a list of n >= 0
\* responses, exactly those n responses were written, each as its own
\* length-prefixed frame, in the order of the list and nothing else, and the
\* connection is open, reading the next command.
C13_BatchWritten ==
  Batch => (sent = FramesOf(last.behaviour.value.val) /\ ReadingNext)

-----------------------------------------------------------------------------
(* C18 *)

\* the codes Dispatch has a decoder for
DecodedCodes == CommandCodes \ {65, 84, 85}

\* C18: whatever was dispatched before it on the connection (nothing
\* included), a well-formed command whose callback the handler implements
\* is routed to exactly that callback; a command of the fourteen is answered
\* Continue when the handler does not implement its callback or Dispatch has
\* no decoder for it, and the connection is closed after a command only when
\* the Dispatch of that very command raised an error.
C18_NoOrdering ==
  last.dispatched =>
    /\ (/\ LastCmd \in DecodedCodes
        /\ WellFormed(last.packet)
        /\ Implements(CallbackOf[LastCmd]))
         => last.outcome.called = <<CallbackOf[LastCmd]>>
    /\ (/\ LastCmd \in CommandCodes
        /\ (LastCmd \notin DecodedCodes \/ ~Implements(CallbackOf[LastCmd])))
         => (sent = Frame(<<99>>) /\ ReadingNext)
    /\ (closed <=> last.outcome.result.kind = "raise")
    /\ (closed /\ last.outcome.called # <<>>)
         => \/ last.outcome.raised # ""
            \/ last.outcome.result = Raise("ValueError")

\* a Body was dispatched to OnBody as the first command of the connection
\* and a MailFrom to OnMailFrom right after it, before any OptNeg, Connect
\* or Helo
C18_Witness ==
  /\ prev.cmd = 66
  /\ last.dispatched /\ LastCmd = 77
  /\ last.outcome.called = <<"OnMailFrom">>
  /\ sent = Frame(<<99>>)
  /\ ReadingNext

-----------------------------------------------------------------------------
(* C19 *)

\* the latest Dispatch passed to OnHeader a Header packet whose payload is
\* a name and a value, each without NUL and each followed by a NUL
HeaderDecoded ==
  /\ last.dispatched
  /\ LastCmd = 76
  /\ last.outcome.called = <<"OnHeader">>
  /\ CountNul(Tail(last.packet)) = 2
  /\ last.packet[Len(last.packet)] = 0

\* the name and the value of such a payload, without their terminators
HeaderName == SubSeq(last.packet, 2, FirstNul(Tail(last.packet)))
HeaderValue ==
  SubSeq(last.packet, FirstNul(Tail(last.packet)) + 2, Len(last.packet) - 1)

\* C19 as stated: for a Header payload name NUL value NUL the handler's
\* OnHeader was passed exactly the name and the value, both without their
\* terminating NUL (after the command code).
C19_HeaderTerminatorsRemoved ==
  HeaderDecoded
    => last.outcome.args
         = PyTuple(<<PyStr(<<76>>), PyStr(HeaderName), PyStr(HeaderValue)>>)

-----------------------------------------------------------------------------
(* C17 *)

\* an OptNeg was dispatched to PpyMilter's OnOptNeg, and it is the very
\* packet that was the first OptNeg of the connection
OptNegRepeated ==
  /\ OptNegAnswered
  /\ ack.seen
  /\ ack.packet = last.packet

-----------------------------------------------------------------------------
(* C16 *)

\* the connections accepted so far
AcceptedConns == {c \in Conns : conns[c].accepted}

\* C16: every accepted connection has one handler instance of its own,
\* created when the connection was accepted and before any of its commands:
\* there are as many instances as accepted connections, no two connections
\* refer to the same one, and an instance has been given exactly the
\* commands that arrived on its connection; the latest command was
\* dispatched to the instance of the connection it arrived on and its
\* response written to that connection's socket; a connection's reference
\* to its instance never changes.
C16_OneHandlerPerConnection ==
  /\ [](/\ Len(heap) = Cardinality(AcceptedConns)
        /\ \A c \in AcceptedConns :
             /\ conns[c].milter \in 1..Len(heap)
             /\ heap[conns[c].milter].received = conns[c].commands
             /\ \A d \in AcceptedConns :
                  c # d => conns[c].milter # conns[d].milter
        /\ \A c \in Conns \ AcceptedConns : conns[c].commands = 0
        /\ event.dispatched
             => /\ event.conn \in AcceptedConns
                /\ event.milter = conns[event.conn].milter
                /\ event.socket = event.conn)
  /\ [][\A c \in AcceptedConns : conns'[c].milter = conns[c].milter]_vars

\* two connections are open with their commands interleaved: each has had
\* two, the latest on connection 1 answered with one frame
C16_Witness ==
  /\ AcceptedConns = Conns
  /\ \A c \in Conns : conns[c].commands = 2 /\ ~conns[c].closed
  /\ event.dispatched /\ event.conn = 1
  /\ event.sent = Frame(<<99>>)

-----------------------------------------------------------------------------
(* C12 *)

\* a is the beginning of b
IsPrefix(a, b) == Len(a) <= Len(b) /\ SubSeq(b, 1, Len(a)) = a

\* every byte the MTA sent has been received and handled
AllHandled == stream = <<>> /\ ac_in_buffer = <<>>

\* C12 as stated: when every frame the MTA sends has a payload of at least
\* one byte, then however recv cuts the stream into pieces, in either
\* transport, the packets given to Dispatch are the payloads sent, in
\* order: each packet given is the next payload, the connection is closed
\* only by what a Dispatch call raised, and once all bytes are handled on an
\* open connection every payload has been given.
C12_PayloadsDelivered ==
  (\A i \in 1..Len(frames) : frames[i] # <<>>)
    => /\ IsPrefix(delivered, frames)
       /\ closed => (last.dispatched /\ last.outcome.result.kind = "raise")
       /\ (milter # NoMilter /\ ~closed /\ AllHandled) => delivered = frames

-----------------------------------------------------------------------------
(* C14 *)

\* the number of bytes recv has returned so far
Consumed == Len(Encode(frames)) - Len(stream)

\* the number of bytes the MTA sent up to the end of its j-th frame
EndOffset(j) == Len(Encode(SubSeq(frames, 1, j)))

\* C14 as stated: on a connection whose frames all have a payload and
\* whose packets so far were the payloads sent, when a byte of command j+1
\* has been read from the socket, command j has been dispatched and all the
\* bytes of the responses of commands 1..j have been written to the socket,
\* in that order, in either transport and however much of a write the
\* socket takes at a time.
C14_WrittenBeforeNextRead ==
  (/\ \A i \in 1..Len(frames) : frames[i] # <<>>
   /\ IsPrefix(delivered, frames))
    => \A j \in 1..Len(frames) :
         Consumed > EndOffset(j)
           => /\ Len(delivered) >= j
              /\ IsPrefix(Join(SubSeq(owed, 1, j)), wire)

-----------------------------------------------------------------------------
(* C15 *)

\* the bytes are frames one after the other: four bytes of a length that is
\* at least 1, then exactly that many bytes
RECURSIVE WholeFrames(_)
WholeFrames(bytes) ==
  \/ bytes = <<>>
  \/ /\ Len(bytes) >= MILTER_LEN_BYTES + 1
     /\ LET n == UnpackI(SubSeq(bytes, 1, MILTER_LEN_BYTES))
        IN  /\ n >= 1
            /\ Len(bytes) >= MILTER_LEN_BYTES + n
            /\ WholeFrames(From(bytes, MILTER_LEN_BYTES + n))

-----------------------------------------------------------------------------
(* C20 *)

\* the transport has read a length of 0 and not dispatched since
ZeroLengthRead ==
  IF transport = "async"
  THEN found_terminator = "read_milter_data" /\ terminator = 0
       /\ ~last.dispatched
  ELSE pc = "recv_data" /\ packetlen = 0

\* the transport's own next step on the packet whose length it has read
DataCallbackNext == ENABLED (handle_recv_data_stream \/ read_milter_data_stream)

\* C20 as stated: when the transport has read a length of 0, in either
\* transport, it goes on by itself without waiting for more bytes and has
\* taken none of the bytes that follow into its buffer; and once that frame
\* is handled the connection is closed, no handler callback was called for
\* the empty packet and nothing was handed to the socket for it.
C20_ZeroLengthCloses ==
  /\ ZeroLengthRead => (DataCallbackNext /\ input = <<>>)
  /\ (last.dispatched /\ last.packet = <<>>)
       => (closed /\ last.outcome.called = <<>> /\ sent = <<>>)


-----------------------------------------------------------------------------
\* C21: when a Dispatch raised PpyMilterCloseConnection and the connection
\* is closed, every response handed to the transport for the earlier
\* commands has been written to the socket in full: the bytes on the wire
\* are the bytes of all the responses, none discarded by the close.
C21_QueuedWrittenBeforeClose ==
  (closed /\ last.dispatched
     /\ last.outcome.raised = "PpyMilterCloseConnection")
    => wire = Join(owed)


-----------------------------------------------------------------------------
\* a Dispatch on the connection raised PpyMilterCloseConnection and the
\* transport closed the connection
ClosedByDispatch ==
  /\ closed
  /\ last.dispatched
  /\ last.outcome.raised = "PpyMilterCloseConnection"

\* C23: once a Dispatch has raised PpyMilterCloseConnection, nothing more is
\* dispatched on the connection and nothing more is handed to the socket or
\* written, whatever bytes had been received after the closing command; and
\* the async transport is not left with read_milter_data installed and a
\* terminator of the closing packet's length.
C23_NothingAfterClose ==
  /\ [](ClosedByDispatch /\ transport = "async"
          => ~(found_terminator = "read_milter_data"
                 /\ terminator = Len(last.packet)))
  /\ [][ClosedByDispatch
          => /\ ClosedByDispatch'
             /\ last' = last
             /\ delivered' = delivered
             /\ owed' = owed
             /\ ac_out' = ac_out
             /\ wire' = wire]_vars

\* the async transport closed on the first of two frames and its read loop
\* went through the bytes of the second, received in the same read
C23_Witness ==
  /\ ClosedByDispatch
  /\ transport = "async"
  /\ Len(frames) = 2
  /\ delivered = <<frames[1]>>
  /\ stream = <<>>
  /\ ac_in_buffer = <<>>
  /\ input = PackI(Len(frames[2])) \o frames[2]
  /\ input # PackI(0)


-----------------------------------------------------------------------------
\* C22: when the MTA closes in the middle of a frame, the part of the frame
\* it sent is discarded: whatever Dispatch was given is one of the MTA's
\* whole frames, in their order, so that no response answers a part of a
\* frame, and the server ends with the connection closed.
C22_PartialFrameDiscarded ==
  /\ IsPrefix(delivered, frames)
  /\ ~ENABLED NextClose => closed


-----------------------------------------------------------------------------
\* the threaded server, given the frames after the async server, has closed
\* the connection or has read every frame
BothRan ==
  /\ observed.done
  /\ transport = "threaded"
  /\ closed \/ (~MoreFrames /\ pc = "recv_packetlen")

\* C24: given the same frames, each of a byte or more and each read whole,
\* and a handler of the same class doing the same, the threaded server has
\* dispatched the same packets as the async server, the same bytes are on
\* the wire, and the connection is closed after the same command or left
\* open by both.
C24_TransportsEquivalent ==
  BothRan => /\ delivered = observed.delivered
             /\ wire = observed.wire
             /\ closed = observed.closed

====
